---- MODULE Spec2Model ----
(***************************************************************************)
(* A model of the eSim Automated Tool Manager (src/*.py).                  *)
(*                                                                         *)
(* One action is one run of the command line program: main() constructs    *)
(* ConfigManager, InstallManager and UpdateManager, then dispatches the    *)
(* sub-command.  What survives a run is the host (operating system,        *)
(* /etc/os-release), the two JSON files and the file system; what a run    *)
(* did is recorded in `call`.                                              *)
(*                                                                         *)
(* Python dicts are functions with a set of strings as domain; a missing   *)
(* or invalid JSON file loads as the empty dict.  Shell commands are       *)
(* external: their exit status and their effect on the file system are     *)
(* inputs of the run.                                                      *)
(***************************************************************************)
EXTENDS Naturals, Sequences, FiniteSets, TLC

VARIABLES
    SYSTEM,        \* constants.SYSTEM: platform.system().lower() of the host
    os_release,    \* /etc/os-release of the host
    tools_file,    \* tools_config.json
    user_file,     \* user_config.json
    shell_env,     \* os.environ as every run of the program starts with it
    is_admin,      \* whether the user holds administrator rights
    world,         \* the file system: onPath (the names shutil.which resolves),
                   \* files (executables under an install directory), dirs (the
                   \* install directories) and versionOk (the version-check
                   \* commands that exit with status zero)
    installedByManager, \* tools whose install command this manager ran to exit 0
    lastSetPath,   \* the argument of the last set-path run, "" before the first
    calls,         \* number of runs so far
    call           \* what the last run did

vars == <<SYSTEM, os_release, tools_file, user_file, shell_env, is_admin, world,
          installedByManager, lastSetPath, calls, call>>

----------------------------------------------------------------------------
(* Python values *)

EmptyDict == [k \in {} |-> ""]

\* dict.get(key, default)
Get(d, k, default) == IF k \in DOMAIN d THEN d[k] ELSE default

\* d1 | d2: dict.update, and a key assignment d[k] = v
Updated(d, e) == [k \in DOMAIN d \cup DOMAIN e |-> IF k \in DOMAIN e THEN e[k] ELSE d[k]]

Assign(d, k, v) == [x \in DOMAIN d \cup {k} |-> IF x = k THEN v ELSE d[x]]

\* del d[k]
Deleted(d, k) == [x \in DOMAIN d \ {k} |-> d[x]]

\* ', '.join(list)
RECURSIVE Join(_)
Join(s) == IF Len(s) = 0 THEN ""
           ELSE IF Len(s) = 1 THEN s[1]
           ELSE s[1] \o ", " \o Join(Tail(s))

\* ' '.join(list)
RECURSIVE JoinSpace(_)
JoinSpace(s) == IF Len(s) = 0 THEN ""
                ELSE IF Len(s) = 1 THEN s[1]
                ELSE s[1] \o " " \o JoinSpace(Tail(s))

RECURSIVE SelectSeqIn(_, _)
SelectSeqIn(s, S) == IF Len(s) = 0 THEN <<>>
                     ELSE IF s[1] \in S THEN <<s[1]>> \o SelectSeqIn(Tail(s), S)
                     ELSE SelectSeqIn(Tail(s), S)

----------------------------------------------------------------------------
(* constants.py *)

PACKAGE_MANAGERS ==
    [linux |-> [ubuntu |-> "apt-get", debian |-> "apt-get", fedora |-> "dnf", centos |-> "yum"],
     windows |-> "choco",
     darwin |-> "brew"]

DEFAULT_PATHS ==
    [linux |-> "/home/u/esim-tools", windows |-> "C:\\esim-tools", darwin |-> "/home/u/esim-tools"]

\* pathlib: the separator of the host's path flavour, Path / name, and
\* str(Path(s)), which drops a trailing separator
Sep == IF SYSTEM = "windows" THEN "\\" ELSE "/"

PathJoin(p, name) == p \o Sep \o name

PathOf(s) == CASE s = "/opt/tools/" -> "/opt/tools"
               [] OTHER -> s

----------------------------------------------------------------------------
(* The inputs: tool definitions, hosts, environments *)

Tools == {"ngspice", "kicad"}

\* the tool names given on the command line; "ghost" is in no configuration
ToolArgs == Tools \cup {"ghost"}

PathArgs == {"/opt/tools/", "/srv/esim"}

NgspiceFull ==
    [description |-> "Circuit simulator",
     dependencies |-> <<"gcc", "make">>,
     executable |-> "ngspice",
     version_check |-> "ngspice --version",
     linux |-> [install |-> "make -C ngspice install",
                update |-> "make -C ngspice update",
                uninstall |-> "make -C ngspice uninstall",
                version_check |-> "ngspice -v",
                update_check |-> "make -C ngspice -n update",
                environment |-> [NGSPICE_HOME |-> "/opt/ngspice"],
                add_to_path |-> TRUE,
                ubuntu |-> [install |-> "apt-get install -y ngspice",
                            update |-> "apt-get upgrade -y ngspice",
                            uninstall |-> "apt-get remove -y ngspice"]],
     windows |-> [install |-> "choco install ngspice -y",
                  update |-> "choco upgrade ngspice -y",
                  uninstall |-> "choco uninstall ngspice -y",
                  environment |-> [NGSPICE_HOME |-> "/opt/ngspice"],
                  add_to_path |-> TRUE],
     darwin |-> [install |-> "brew install ngspice",
                 update |-> "brew upgrade ngspice",
                 uninstall |-> "brew uninstall ngspice",
                 version_check |-> "ngspice -v",
                 update_check |-> "brew outdated"]]

NgspiceGeneric ==
    [description |-> "Circuit simulator",
     dependencies |-> <<"make">>,
     executable |-> "ngspice",
     version_check |-> "ngspice --version",
     linux |-> [install |-> "make -C ngspice install",
                update |-> "make -C ngspice update",
                uninstall |-> "make -C ngspice uninstall",
                environment |-> [NGSPICE_HOME |-> "/opt/ngspice"],
                add_to_path |-> FALSE]]

NgspiceNoInstall ==
    [description |-> "Circuit simulator",
     linux |-> [update |-> "make -C ngspice update"],
     windows |-> [update |-> "choco upgrade ngspice -y"],
     darwin |-> [update |-> "brew upgrade ngspice"]]

KicadPlain ==
    [description |-> "PCB design",
     dependencies |-> <<>>,
     linux |-> [install |-> "make -C kicad install",
                update |-> "make -C kicad update",
                uninstall |-> "make -C kicad uninstall"],
     windows |-> [install |-> "choco install kicad -y",
                  uninstall |-> "choco uninstall kicad -y"],
     darwin |-> [install |-> "brew install kicad",
                 uninstall |-> "brew uninstall kicad"]]

KicadWindowsOnly ==
    [description |-> "PCB design",
     executable |-> "kicad",
     windows |-> [install |-> "choco install kicad -y",
                  uninstall |-> "choco uninstall kicad -y"]]

\* the documents tools_config.json holds
NumToolsFiles == 3

ToolsDocument(i) ==
    CASE i = 1 -> [tools |-> [ngspice |-> NgspiceFull, kicad |-> KicadPlain]]
      [] i = 2 -> [tools |-> [ngspice |-> NgspiceGeneric, kicad |-> KicadWindowsOnly]]
      [] i = 3 -> [tools |-> [ngspice |-> NgspiceNoInstall, kicad |-> EmptyDict]]
      [] OTHER -> EmptyDict

VersionCmds == {"ngspice --version", "ngspice -v"}

\* /etc/os-release: a line is KEY=value, the value quoted or not
OsReleaseOf(id) ==
    [readable |-> TRUE,
     lines |-> <<[key |-> "NAME", value |-> "Linux", quoted |-> TRUE],
                 [key |-> "ID_LIKE", value |-> "debian", quoted |-> FALSE],
                 [key |-> "ID", value |-> id, quoted |-> (id = "arch")]>>]

NoOsRelease == [readable |-> FALSE, lines |-> <<>>]

OsReleaseNoId ==
    [readable |-> TRUE, lines |-> <<[key |-> "NAME", value |-> "Linux", quoted |-> TRUE]>>]

Hosts ==
    <<[system |-> "linux", os_release |-> OsReleaseOf("ubuntu"), is_admin |-> FALSE],
      [system |-> "linux", os_release |-> OsReleaseOf("debian"), is_admin |-> FALSE],
      [system |-> "linux", os_release |-> OsReleaseOf("fedora"), is_admin |-> FALSE],
      [system |-> "linux", os_release |-> OsReleaseOf("centos"), is_admin |-> FALSE],
      [system |-> "linux", os_release |-> OsReleaseOf("arch"), is_admin |-> FALSE],
      [system |-> "linux", os_release |-> OsReleaseNoId, is_admin |-> FALSE],
      [system |-> "windows", os_release |-> NoOsRelease, is_admin |-> TRUE],
      [system |-> "windows", os_release |-> NoOsRelease, is_admin |-> FALSE],
      [system |-> "darwin", os_release |-> NoOsRelease, is_admin |-> FALSE],
      [system |-> "freebsd", os_release |-> NoOsRelease, is_admin |-> FALSE]>>

\* os.environ at the start of a run; PATH is the list of its entries
ShellEnvs ==
    <<[PATH |-> <<"/usr/bin">>, HOME |-> "/home/u"],
      [PATH |-> <<"/usr/bin", "/home/u/esim-tools/ngspice/bin.old">>, HOME |-> "/home/u",
       NGSPICE_HOME |-> "/usr/share/ngspice"],
      [HOME |-> "/home/u"]>>

\* the pairs <<needle, entry>> of this model's strings with needle a proper
\* substring of entry
ProperSubstrings ==
    {<<"/home/u/esim-tools/ngspice/bin", "/home/u/esim-tools/ngspice/bin.old">>}

----------------------------------------------------------------------------
(* utils.py *)

NoneValue == "<None>"

Exits == {"zero", "nonzero", "spawn_error"}

\* a run_command that returns the CompletedProcess whatever the exit status
run_command_never_none(exit) == FALSE

\* run_command(command, check=True): the CompletedProcess, or None when the
\* command exits non-zero (CalledProcessError) or cannot be spawned

run_command_is_none(exit) == exit # "zero"

\* run_command(command, check=False): a CompletedProcess with its returncode,
\* or None when the command cannot be spawned
run_command_unchecked_ok(exit) == exit = "zero"

is_tool_available(w, name) == name \in w.onPath

RECURSIVE FirstId(_)
FirstId(lines) ==
    IF Len(lines) = 0 THEN "unknown"
    ELSE IF lines[1].key = "ID" THEN lines[1].value
    ELSE FirstId(Tail(lines))

\* utils.get_linux_distro
get_linux_distro ==
    IF SYSTEM # "linux" THEN NoneValue
    ELSE IF ~os_release.readable THEN "unknown"
    ELSE FirstId(os_release.lines)

StrContains(entry, needle) == entry = needle \/ <<needle, entry>> \in ProperSubstrings

\* path_str not in os.environ["PATH"], for a PATH that is set
InPathVar(env, path_str) == \E i \in 1..Len(env.PATH) : StrContains(env.PATH[i], path_str)

\* add_to_path: raises KeyError when PATH is not set
add_to_path_raises(env) == "PATH" \notin DOMAIN env

\* an add_to_path without the test for the directory being there already
add_to_path_always(env, path_str) == [env EXCEPT !.PATH = <<path_str>> \o env.PATH]

add_to_path(env, path_str) ==
    IF InPathVar(env, path_str) THEN env
    ELSE [env EXCEPT !.PATH = <<path_str>> \o env.PATH]

----------------------------------------------------------------------------
(* config_manager.py *)

\* a JSON file: missing, or not valid JSON, or holding a document
MissingFile == [exists |-> FALSE, valid |-> FALSE, content |-> EmptyDict]

InvalidFile == [exists |-> TRUE, valid |-> FALSE, content |-> EmptyDict]

JsonFile(document) == [exists |-> TRUE, valid |-> TRUE, content |-> document]

load_config(file) ==
    IF ~file.exists THEN EmptyDict
    ELSE IF ~file.valid THEN EmptyDict
    ELSE file.content

\* ConfigManager.__init__: the two mappings a run starts with
tools_config == load_config(tools_file)

user_config == load_config(user_file)

\* ConfigManager.get_install_path raises KeyError for a SYSTEM that has no
\* default path when the user config names none
get_install_path_raises(cfg) ==
    "install_path" \notin DOMAIN cfg /\ SYSTEM \notin DOMAIN DEFAULT_PATHS

get_install_path(cfg) ==
    IF "install_path" \in DOMAIN cfg THEN PathOf(cfg.install_path)
    ELSE DEFAULT_PATHS[SYSTEM]

get_tool_config(tool_name) == Get(Get(tools_config, "tools", EmptyDict), tool_name, EmptyDict)

get_all_tools == Get(tools_config, "tools", EmptyDict)

\* a get_platform_config that looks the distro up without the generic block
\* as the default
get_platform_config_no_fallback(tool_config) ==
    IF SYSTEM = "linux"
    THEN Get(Get(tool_config, "linux", EmptyDict), get_linux_distro, EmptyDict)
    ELSE Get(tool_config, SYSTEM, EmptyDict)

get_platform_config(tool_config) ==
    IF SYSTEM \in DOMAIN tool_config THEN Get(tool_config, SYSTEM, EmptyDict)
    ELSE IF SYSTEM = "linux"
         THEN LET linux_config == Get(tool_config, "linux", EmptyDict)
              IN  Get(linux_config, get_linux_distro, linux_config)
         ELSE EmptyDict

\* save_user_config: open(USER_CONFIG_FILE, 'w') and json.dump.  The document
\* is written; or the file cannot be opened and stays as it was; or it is
\* opened, which empties it, and the write fails
SaveOutcomes == {"written", "not_opened", "truncated"}

save_user_config(file, cfg, how) ==
    CASE how = "written" -> JsonFile(cfg)
      [] how = "truncated" -> InvalidFile
      [] OTHER -> file

\* save_user_config returns True
save_returns_true(how) == how = "written"

\* a set_install_path that starts the user config afresh
set_install_path_alone(cfg, path) == [install_path |-> PathOf(path)]

\* set_install_path: the user config after it
set_install_path(cfg, path) == Assign(cfg, "install_path", PathOf(path))

----------------------------------------------------------------------------
(* dependency_checker.py *)

\* dependency_checker.get_linux_distro: distro.id()
distro_id ==
    IF SYSTEM # "linux" THEN ""
    ELSE IF ~os_release.readable \/ FirstId(os_release.lines) = "unknown" THEN ""
    ELSE FirstId(os_release.lines)

\* a get_package_manager that does not look for the binary on PATH
get_package_manager_unchecked(w) ==
    IF SYSTEM = "windows" THEN "choco"
    ELSE IF SYSTEM = "darwin" THEN "brew"
    ELSE IF SYSTEM = "linux" /\ distro_id \in DOMAIN PACKAGE_MANAGERS.linux
         THEN PACKAGE_MANAGERS.linux[distro_id]
    ELSE ""

get_package_manager(w) ==
    IF SYSTEM = "windows" THEN (IF is_tool_available(w, "choco") THEN "choco" ELSE "")
    ELSE IF SYSTEM = "darwin" THEN (IF is_tool_available(w, "brew") THEN "brew" ELSE "")
    ELSE IF SYSTEM = "linux"
         THEN IF distro_id \in DOMAIN PACKAGE_MANAGERS.linux
                 /\ is_tool_available(w, PACKAGE_MANAGERS.linux[distro_id])
              THEN PACKAGE_MANAGERS.linux[distro_id]
              ELSE ""
         ELSE ""

\* check_tool_dependencies: the missing dependencies, in the order listed
check_tool_dependencies(w, tool_config) ==
    LET dependencies == Get(tool_config, "dependencies", <<>>)
    IN  SelectSeqIn(dependencies, {dependencies[i] : i \in 1..Len(dependencies)} \ w.onPath)

\* install_system_dependencies: the command it runs, "" when it runs none
install_dependencies_command(package_manager, dependencies) ==
    IF package_manager = "" THEN ""
    ELSE IF SYSTEM = "windows" /\ package_manager = "choco"
         THEN "choco install " \o JoinSpace(dependencies) \o " -y"
    ELSE IF SYSTEM = "darwin" /\ package_manager = "brew"
         THEN "brew install " \o JoinSpace(dependencies)
    ELSE IF SYSTEM = "linux"
         THEN "sudo " \o package_manager \o " install -y " \o JoinSpace(dependencies)
    ELSE ""

----------------------------------------------------------------------------
(* What the external commands do to the file system *)

exec_name(tool_name, tool_config) ==
    Get(tool_config, "executable", tool_name) \o (IF SYSTEM = "windows" THEN ".exe" ELSE "")

exec_path(install_path, tool_name, tool_config) ==
    PathJoin(PathJoin(PathJoin(install_path, tool_name), "bin"), exec_name(tool_name, tool_config))

\* "none": nothing; "on_path": the tool's executable appears on PATH and its
\* version checks pass; "in_dir": the executable appears under the install
\* directory; "gone": the tool disappears; "deps": the packages asked for
\* appear on PATH
Effects == {"none", "on_path", "in_dir", "gone", "deps"}

ApplyEffect(w, effect, install_path, tool_name, tool_config, packages) ==
    CASE effect = "on_path" ->
           [w EXCEPT !.onPath = @ \cup {exec_name(tool_name, tool_config)},
                     !.versionOk = IF tool_name = "ngspice" THEN VersionCmds ELSE @]
      [] effect = "in_dir" ->
           [w EXCEPT !.files = @ \cup {exec_path(install_path, tool_name, tool_config)},
                     !.dirs = @ \cup {PathJoin(install_path, tool_name)}]
      [] effect = "gone" ->
           [w EXCEPT !.onPath = @ \ {exec_name(tool_name, tool_config)},
                     !.files = @ \ {exec_path(install_path, tool_name, tool_config)},
                     !.versionOk = IF tool_name = "ngspice" THEN {} ELSE @]
      [] effect = "deps" ->
           [w EXCEPT !.onPath = @ \cup {packages[i] : i \in 1..Len(packages)}]
      [] OTHER -> w

----------------------------------------------------------------------------
(* install_manager.py *)

\* a version_cmd that prefers the tool-level command
version_cmd_tool_first(tool_config) ==
    Get(tool_config, "version_check", Get(get_platform_config(tool_config), "version_check", ""))

\* is_tool_installed: the version-check command it runs ("" when none)
version_cmd(tool_config) ==
    Get(get_platform_config(tool_config), "version_check", Get(tool_config, "version_check", ""))

\* an is_tool_installed that takes every configured tool for installed
is_tool_installed_if_configured(w, install_path, tool_name, tool_config) ==
    DOMAIN tool_config # {}

is_tool_installed(w, install_path, tool_name, tool_config) ==
    IF DOMAIN tool_config = {} THEN FALSE
    ELSE \/ (version_cmd(tool_config) # "" /\ version_cmd(tool_config) \in w.versionOk)
         \/ exec_path(install_path, tool_name, tool_config) \in w.files
         \/ is_tool_available(w, exec_name(tool_name, tool_config))

\* the commands is_tool_installed executes
version_check_log(w, tool_config) ==
    IF DOMAIN tool_config = {} \/ version_cmd(tool_config) = "" THEN <<>>
    ELSE <<[kind |-> "version_check", cmd |-> version_cmd(tool_config),
            exit |-> IF version_cmd(tool_config) \in w.versionOk THEN "zero" ELSE "nonzero"]>>

\* a _save_environment_variables that replaces the tool's entry
save_environment_variables_replace(cfg, tool_name, env_vars) ==
    Assign(cfg, "environment", Assign(Get(cfg, "environment", EmptyDict), tool_name, env_vars))

\* _save_environment_variables: the user config after it
save_environment_variables(cfg, tool_name, env_vars) ==
    LET environment == Get(cfg, "environment", EmptyDict)
        saved == Get(environment, tool_name, EmptyDict)
    IN  Assign(cfg, "environment", Assign(environment, tool_name, Updated(saved, env_vars)))

\* The record of a run.  op, tool: the sub-command and its argument; called:
\* the manager's method was called; outcome: it "returned" or "raised";
\* success, message: the pair returned; world, user: the file system and
\* user_config.json after the run; saved: save_user_config returned True;
\* executed: the commands run, in order; checked, installed: is_tool_installed
\* was evaluated, and its value; resolved, platform_config: get_platform_config
\* was evaluated by the method, and its value; missing, prompted, accepted: the
\* dependency check, the prompt and its answer; deps_at_command: every
\* dependency was on PATH when the install command ran; created_dir: the
\* install directory was created; env_during, env_after: os.environ while the
\* install command ran and at the end of the run; listing: what list printed;
\* results: what update_all_tools returned; updates: what check_updates
\* returned.
NoCall(op, tool_name) ==
    [op |-> op, tool |-> tool_name, called |-> FALSE,
     outcome |-> "returned", success |-> FALSE, message |-> "",
     world |-> world, user |-> user_file, saved |-> FALSE, executed |-> <<>>,
     checked |-> FALSE, installed |-> FALSE, accepted |-> FALSE, listing |-> EmptyDict,
     results |-> EmptyDict, updates |-> EmptyDict,
     resolved |-> FALSE, platform_config |-> EmptyDict,
     missing |-> <<>>, prompted |-> FALSE, deps_at_command |-> TRUE,
     created_dir |-> FALSE,
     env_during |-> shell_env, env_after |-> shell_env]

\* what running a command can do: it cannot be spawned, or it runs, exits
\* with some status and has had one of `effects` on the file system
CommandRuns(effects) ==
    {[exit |-> "spawn_error", effect |-> "none"]}
        \cup {[exit |-> e, effect |-> f] : e \in {"zero", "nonzero"}, f \in effects}

Executed(kind, cmd, exit) == <<[kind |-> kind, cmd |-> cmd, exit |-> exit]>>

\* install_tool from the platform lookup on (lines 56-99), after the commands
\* logged in `log`, on the file system w1: the set of possible outcomes
install_command_stage(tool_name, log, w1) ==
    LET install_path == get_install_path(user_config)
        tool_config == get_tool_config(tool_name)
        platform_config == get_platform_config(tool_config)
        resolved == [log EXCEPT !.resolved = TRUE, !.platform_config = platform_config]
        install_cmd == Get(platform_config, "install", "")
        tool_dir == PathJoin(install_path, tool_name)
        w2 == [w1 EXCEPT !.dirs = @ \cup {tool_dir}]
        env_vars == Get(platform_config, "environment", EmptyDict)
        wants_path == Get(platform_config, "add_to_path", FALSE)
        Ran(x) == [resolved EXCEPT
                      !.world = ApplyEffect(w2, x.effect, install_path, tool_name, tool_config, <<>>),
                      !.created_dir = TRUE,
                      !.executed = @ \o Executed("install", install_cmd, x.exit),
                      !.deps_at_command = Len(check_tool_dependencies(w1, tool_config)) = 0,
                      !.env_during = Updated(shell_env, env_vars)]
        Succeeded(x, save_ok) ==
            [Ran(x) EXCEPT
                !.success = TRUE, !.saved = save_returns_true(save_ok),
                !.env_after = IF wants_path THEN add_to_path(shell_env, PathJoin(tool_dir, "bin"))
                              ELSE shell_env,
                !.user = save_user_config(user_file,
                             save_environment_variables(user_config, tool_name, env_vars), save_ok),
                !.message = "Successfully installed " \o tool_name \o "."
                    \o (IF DOMAIN env_vars # {}
                        THEN " Please note: to make environment variables permanent, you may need to set them manually or restart your terminal."
                        ELSE "")]
    IN
    IF DOMAIN platform_config = {} THEN
        {[resolved EXCEPT !.message = "No installation instructions for " \o tool_name \o " on this platform"]}
    ELSE IF install_cmd = "" THEN
        {[resolved EXCEPT !.message = "No install command defined for " \o tool_name]}
    ELSE
        {[resolved EXCEPT !.message = "Failed to create installation directory: " \o tool_dir]}
        \cup UNION {
            IF run_command_is_none(x.exit) THEN
                {[Ran(x) EXCEPT !.message = "Installation of " \o tool_name \o " failed"]}
            ELSE IF wants_path /\ add_to_path_raises(shell_env) THEN
                {[Ran(x) EXCEPT !.outcome = "raised", !.message = "KeyError: 'PATH'"]}
            ELSE
                {Succeeded(x, save_ok) : save_ok \in SaveOutcomes}
            : x \in CommandRuns({"none", "on_path", "in_dir"})}

\* install_tool's dependency check (lines 45-54), then the rest
install_dependency_stage(tool_name, log) ==
    LET install_path == get_install_path(user_config)
        tool_config == get_tool_config(tool_name)
        missing == check_tool_dependencies(world, tool_config)
        asked == [log EXCEPT !.missing = missing, !.prompted = TRUE]
        pkg_cmd == install_dependencies_command(get_package_manager(world), missing)
        failed == [asked EXCEPT !.message = "Failed to install dependencies: " \o Join(missing)]
        PkgRan(x) == [failed EXCEPT
                         !.accepted = TRUE,
                         !.world = ApplyEffect(world, x.effect, install_path, tool_name, tool_config, missing),
                         !.executed = @ \o Executed("pkg", pkg_cmd, x.exit)]
    IN
    IF Len(missing) = 0 THEN install_command_stage(tool_name, log, world)
    ELSE
        \* the user declines the prompt, or accepts
        {[asked EXCEPT !.message = "Missing dependencies: " \o Join(missing)]}
        \cup (IF pkg_cmd = "" THEN {[failed EXCEPT !.accepted = TRUE]}
              ELSE UNION {
                  IF run_command_is_none(x.exit) THEN {PkgRan(x)}
                  ELSE install_command_stage(tool_name, [PkgRan(x) EXCEPT !.message = ""], PkgRan(x).world)
                  : x \in CommandRuns({"none", "deps"})})

\* InstallManager.install_tool: the set of possible outcomes of a call
install_tool(tool_name) ==
    LET base == [NoCall("install", tool_name) EXCEPT !.called = TRUE]
        install_path == get_install_path(user_config)
        tool_config == get_tool_config(tool_name)
        installed == is_tool_installed(world, install_path, tool_name, tool_config)
        checked == [base EXCEPT !.checked = TRUE, !.installed = installed,
                                !.executed = version_check_log(world, tool_config)]
    IN
    IF SYSTEM = "windows" /\ ~is_admin /\ get_package_manager(world) = "choco" THEN
        {[base EXCEPT !.message = "Administrator privileges are required to install tools with Chocolatey. Please run the terminal as an administrator."]}
    ELSE IF DOMAIN tool_config = {} THEN
        {[base EXCEPT !.message = "Tool " \o tool_name \o " not found in configuration"]}
    ELSE IF installed THEN
        {[checked EXCEPT !.success = TRUE, !.message = "Tool " \o tool_name \o " is already installed"]}
    ELSE install_dependency_stage(tool_name, checked)

\* InstallManager.uninstall_tool: the set of possible outcomes of a call
uninstall_tool(tool_name) ==
    LET base == [NoCall("uninstall", tool_name) EXCEPT !.called = TRUE]
        install_path == get_install_path(user_config)
        tool_config == get_tool_config(tool_name)
        installed == is_tool_installed(world, install_path, tool_name, tool_config)
        checked == [base EXCEPT !.checked = TRUE, !.installed = installed,
                                !.executed = version_check_log(world, tool_config)]
        platform_config == get_platform_config(tool_config)
        resolved == [checked EXCEPT !.resolved = TRUE, !.platform_config = platform_config]
        uninstall_cmd == Get(platform_config, "uninstall", "")
        Ran(x) == [resolved EXCEPT
                      !.world = ApplyEffect(world, x.effect, install_path, tool_name, tool_config, <<>>),
                      !.executed = @ \o Executed("uninstall", uninstall_cmd, x.exit)]
        has_saved == "environment" \in DOMAIN user_config /\ tool_name \in DOMAIN user_config.environment
        cleaned == [user_config EXCEPT !.environment = Deleted(@, tool_name)]
        done == "Successfully uninstalled " \o tool_name \o "."
    IN
    IF DOMAIN tool_config = {} THEN
        {[base EXCEPT !.message = "Tool " \o tool_name \o " not found in configuration"]}
    ELSE IF ~installed THEN
        {[checked EXCEPT !.success = TRUE, !.message = "Tool " \o tool_name \o " is not installed."]}
    ELSE IF uninstall_cmd = "" THEN
        {[resolved EXCEPT !.message = "No uninstall command defined for " \o tool_name \o " on this platform."]}
    ELSE UNION {
        IF run_command_is_none(x.exit) THEN
            {[Ran(x) EXCEPT !.message = "Uninstallation of " \o tool_name \o " failed."]}
        ELSE IF has_saved THEN
            {[Ran(x) EXCEPT !.success = TRUE, !.message = done, !.saved = save_returns_true(save_ok),
                            !.user = save_user_config(user_file, cleaned, save_ok)]
                : save_ok \in SaveOutcomes}
        ELSE {[Ran(x) EXCEPT !.success = TRUE, !.message = done]}
        : x \in CommandRuns({"none", "gone"})}

----------------------------------------------------------------------------
(* update_manager.py *)

\* an update_tool that runs the update command without asking whether the
\* tool is installed
update_tool_anyway_on(w, tool_name) ==
    {[NoCall("update", tool_name) EXCEPT
         !.called = TRUE, !.world = w, !.success = TRUE,
         !.message = "Successfully updated " \o tool_name,
         !.executed = Executed("update",
                               Get(get_platform_config(get_tool_config(tool_name)), "update", ""),
                               "zero")]}

\* UpdateManager.update_tool on the file system w: the set of possible
\* outcomes of a call
update_tool_on(w, tool_name) ==
    LET base == [NoCall("update", tool_name) EXCEPT !.called = TRUE, !.world = w]
        install_path == get_install_path(user_config)
        tool_config == get_tool_config(tool_name)
        installed == is_tool_installed(w, install_path, tool_name, tool_config)
        checked == [base EXCEPT !.checked = TRUE, !.installed = installed,
                                !.executed = version_check_log(w, tool_config)]
        platform_config == get_platform_config(tool_config)
        resolved == [checked EXCEPT !.resolved = TRUE, !.platform_config = platform_config]
        update_cmd == Get(platform_config, "update", "")
        Ran(x) == [resolved EXCEPT
                      !.world = ApplyEffect(w, x.effect, install_path, tool_name, tool_config, <<>>),
                      !.executed = @ \o Executed("update", update_cmd, x.exit)]
    IN
    IF DOMAIN tool_config = {} THEN
        {[base EXCEPT !.message = "Tool " \o tool_name \o " not found in configuration"]}
    ELSE IF ~installed THEN
        {[checked EXCEPT !.message = "Tool " \o tool_name \o " is not installed"]}
    ELSE IF DOMAIN platform_config = {} THEN
        {[resolved EXCEPT !.message = "No update instructions for " \o tool_name \o " on this platform"]}
    ELSE IF update_cmd = "" THEN
        {[resolved EXCEPT !.message = "No update command defined for " \o tool_name]}
    ELSE {
        IF run_command_is_none(x.exit) THEN
            [Ran(x) EXCEPT !.message = "Update of " \o tool_name \o " failed"]
        ELSE [Ran(x) EXCEPT !.success = TRUE, !.message = "Successfully updated " \o tool_name]
        : x \in CommandRuns({"none", "gone"})}

\* UpdateManager.update_tool: the set of possible outcomes of a call
update_tool(tool_name) == update_tool_on(world, tool_name)

\* tools.items(): the configured tools in the order of the JSON document
ToolOrder == <<"ngspice", "kicad">>

all_tools_items == SelectSeqIn(ToolOrder, DOMAIN get_all_tools)

\* update_all_tools' loop over the tools left, acc being the run so far
RECURSIVE update_all_from(_, _)
update_all_from(items, acc) ==
    IF Len(items) = 0 THEN {acc}
    ELSE LET tool_name == items[1]
             tool_config == get_all_tools[tool_name]
             install_path == get_install_path(user_config)
             looked == [acc EXCEPT !.executed = @ \o version_check_log(acc.world, tool_config)]
         IN  IF ~is_tool_installed(acc.world, install_path, tool_name, tool_config)
             THEN update_all_from(Tail(items), looked)
             ELSE UNION {
                 update_all_from(Tail(items),
                     [looked EXCEPT
                         !.world = r.world,
                         !.executed = @ \o r.executed,
                         !.results = Assign(@, tool_name,
                                            [success |-> r.success, message |-> r.message])])
                 : r \in update_tool_on(acc.world, tool_name)}

\* what the update-check command can do: it cannot be spawned, or its output
\* names the tool, or does not
UpdateCheckRuns == {"spawn_error", "names_tool", "silent"}

\* _check_tool_update: the status it returns, `ran` being what the
\* update-check command did when there is one
check_tool_update_status(platform_config, ran) ==
    IF DOMAIN platform_config = {} THEN "Could not determine update status for this platform"
    ELSE IF Get(platform_config, "update_check", "") # "" /\ ran = "names_tool"
         THEN "Update available"
    ELSE "Up to date"

\* _check_tool_update: the set of possible outcomes, a status and the
\* commands executed
check_tool_update(tool_name, tool_config) ==
    LET platform_config == get_platform_config(tool_config)
        update_check_cmd == Get(platform_config, "update_check", "")
    IN  IF DOMAIN platform_config = {} \/ update_check_cmd = ""
        THEN {[status |-> check_tool_update_status(platform_config, "silent"), executed |-> <<>>]}
        ELSE {[status |-> check_tool_update_status(platform_config, ran),
               executed |-> Executed("update_check", update_check_cmd, ran)]
              : ran \in UpdateCheckRuns}

\* check_updates' loop over the tools left, acc being the run so far
RECURSIVE check_updates_from(_, _)
check_updates_from(items, acc) ==
    IF Len(items) = 0 THEN {acc}
    ELSE LET tool_name == items[1]
             tool_config == get_all_tools[tool_name]
             install_path == get_install_path(user_config)
             looked == [acc EXCEPT !.executed = @ \o version_check_log(acc.world, tool_config)]
         IN  IF ~is_tool_installed(acc.world, install_path, tool_name, tool_config)
             THEN check_updates_from(Tail(items), looked)
             ELSE UNION {
                 check_updates_from(Tail(items),
                     [looked EXCEPT
                         !.executed = @ \o c.executed,
                         !.updates = IF c.status # "" THEN Assign(@, tool_name, c.status) ELSE @])
                 : c \in check_tool_update(tool_name, tool_config)}

\* UpdateManager.check_updates: the set of possible outcomes of a call
check_updates ==
    check_updates_from(all_tools_items,
                       [NoCall("check-updates", "") EXCEPT !.called = TRUE, !.success = TRUE])

\* UpdateManager.update_all_tools: the set of possible outcomes of a call
update_all_tools ==
    update_all_from(all_tools_items,
                    [NoCall("update-all", "") EXCEPT !.called = TRUE, !.success = TRUE])

----------------------------------------------------------------------------
(* main.py: one run of the program *)

\* the number of runs explored
MaxCalls == 2

\* main constructs ConfigManager first: get_install_path's KeyError ends the
\* run before the sub-command is dispatched
construct_raises(op, arg) ==
    [NoCall(op, arg) EXCEPT !.outcome = "raised", !.message = "KeyError: SYSTEM"]

Log(r) == [k \in DOMAIN r \ {"world", "user"} |-> r[k]]

RanToZero(r, kind) ==
    \E i \in 1..Len(r.executed) : r.executed[i].kind = kind /\ r.executed[i].exit = "zero"

Commit(r) ==
    /\ calls' = calls + 1
    /\ world' = r.world
    /\ user_file' = r.user
    /\ call' = Log(r)
    /\ installedByManager' = IF RanToZero(r, "install") THEN installedByManager \cup {r.tool}
                              ELSE installedByManager
    /\ UNCHANGED <<SYSTEM, os_release, tools_file, shell_env, is_admin>>

\* main: ConfigManager() and the managers, then the sub-command
main(op, arg, outcomes) ==
    /\ calls < MaxCalls
    /\ IF get_install_path_raises(user_config) THEN Commit(construct_raises(op, arg))
       ELSE \E r \in outcomes : Commit(r)

Install ==
    \E tool_name \in ToolArgs :
        /\ main("install", tool_name, install_tool(tool_name))
        /\ UNCHANGED lastSetPath

Uninstall ==
    \E tool_name \in ToolArgs :
        /\ main("uninstall", tool_name, uninstall_tool(tool_name))
        /\ UNCHANGED lastSetPath

Update ==
    \E tool_name \in ToolArgs :
        /\ main("update", tool_name, update_tool(tool_name))
        /\ UNCHANGED lastSetPath

\* update with no argument: check_updates, and what main reports
check_updates_call ==
    {[r EXCEPT !.message = IF DOMAIN r.updates = {} THEN "All tools are up to date." ELSE ""]
     : r \in check_updates}

CheckUpdates ==
    /\ main("check-updates", "", check_updates_call)
    /\ UNCHANGED lastSetPath

\* update --all
UpdateAll ==
    /\ main("update-all", "", update_all_tools)
    /\ UNCHANGED lastSetPath

\* ConfigManager.set_install_path: the set of possible outcomes of a call
set_install_path_call(path) ==
    {[NoCall("set-path", path) EXCEPT
         !.called = TRUE, !.success = TRUE, !.saved = save_returns_true(save_ok),
         !.user = save_user_config(user_file, set_install_path(user_config, path), save_ok)]
     : save_ok \in SaveOutcomes}

SetPath ==
    \E path \in PathArgs :
        /\ main("set-path", path, set_install_path_call(path))
        /\ lastSetPath' = IF get_install_path_raises(user_config) THEN lastSetPath ELSE path

\* main's list: is_tool_installed of every configured tool
list_tools ==
    {[NoCall("list", "") EXCEPT
         !.called = TRUE, !.success = TRUE,
         !.listing = [t \in DOMAIN get_all_tools |->
                         is_tool_installed(world, get_install_path(user_config), t, get_all_tools[t])]]}

List ==
    /\ main("list", "", list_tools)
    /\ UNCHANGED lastSetPath

----------------------------------------------------------------------------
(* The states the program starts in *)

PackageManagerNames == {"apt-get", "dnf", "yum", "choco", "brew"}

SavedUserFile ==
    JsonFile([install_path |-> "/opt/tools",
              environment |-> [kicad |-> [KICAD_HOME |-> "/opt/kicad"]]])

\* the file system, the environment and user_config.json before the first run
Situations ==
    <<[onPath |-> {}, versionOk |-> {}, env |-> 1, user |-> MissingFile],
      [onPath |-> PackageManagerNames \cup {"gcc"}, versionOk |-> {}, env |-> 1, user |-> MissingFile],
      [onPath |-> PackageManagerNames \cup {"gcc", "make"}, versionOk |-> {}, env |-> 1, user |-> MissingFile],
      [onPath |-> PackageManagerNames \cup {"gcc", "make"}, versionOk |-> {}, env |-> 2, user |-> MissingFile],
      [onPath |-> PackageManagerNames \cup {"gcc", "make"}, versionOk |-> {}, env |-> 3, user |-> MissingFile],
      [onPath |-> PackageManagerNames \cup {"gcc", "make"}, versionOk |-> {}, env |-> 1, user |-> SavedUserFile],
      [onPath |-> PackageManagerNames \cup {"gcc", "make", "ngspice"}, versionOk |-> {}, env |-> 1, user |-> MissingFile],
      [onPath |-> {"gcc", "make"}, versionOk |-> {"ngspice -v"}, env |-> 1, user |-> InvalidFile],
      [onPath |-> PackageManagerNames, versionOk |-> {"ngspice --version"}, env |-> 1, user |-> SavedUserFile]>>

\* the hosts explored in every situation, the other Linux distributions being
\* explored in the plain ones: default environment, no user_config.json, the
\* tool not installed
MainHost == os_release \in {OsReleaseOf("ubuntu"), NoOsRelease}

PlainSituation(situation) ==
    /\ situation.env = 1
    /\ situation.user = MissingFile
    /\ situation.versionOk = {}
    /\ "ngspice" \notin situation.onPath

Init ==
    /\ \E h \in 1..Len(Hosts) :
          /\ SYSTEM = Hosts[h].system
          /\ os_release = Hosts[h].os_release
          /\ is_admin = Hosts[h].is_admin
    /\ \/ tools_file = MissingFile
       \/ tools_file = InvalidFile
       \/ \E i \in 1..NumToolsFiles : tools_file = JsonFile(ToolsDocument(i))
    /\ \E s \in 1..Len(Situations) :
          /\ MainHost \/ PlainSituation(Situations[s])
          /\ user_file = Situations[s].user
          /\ shell_env = ShellEnvs[Situations[s].env]
          /\ world = [onPath |-> Situations[s].onPath, files |-> {}, dirs |-> {},
                      versionOk |-> Situations[s].versionOk]
    /\ installedByManager = {}
    /\ lastSetPath = ""
    /\ calls = 0
    /\ call = Log(NoCall("none", ""))

Next == Install \/ Uninstall \/ Update \/ UpdateAll \/ CheckUpdates \/ SetPath \/ List

Spec == Init /\ [][Next]_vars

----------------------------------------------------------------------------
(* The claims *)

\* the run recorded in c executed a command of this kind
Ran(c, kind) == \E i \in 1..Len(c.executed) : c.executed[i].kind = kind

\* C1: a run of install_tool for a configured tool that is_tool_installed
\* reports installed returns (True, ...), executes neither the install command
\* nor a dependency-installation command, creates no install directory and
\* leaves the user config and the process environment as they were.
C1_InstallOfInstalledToolIsNoOp ==
    [][ LET tool_config == get_tool_config(call'.tool)
        IN  (/\ call'.op = "install"
             /\ call'.called
             /\ DOMAIN tool_config # {}
             /\ is_tool_installed(world, get_install_path(user_config), call'.tool, tool_config))
            => (/\ call'.outcome = "returned"
                /\ call'.success
                /\ ~Ran(call', "install")
                /\ ~Ran(call', "pkg")
                /\ ~call'.created_dir
                /\ world'.dirs = world.dirs
                /\ user_file' = user_file
                /\ call'.env_after = shell_env) ]_vars

\* C2: on a Linux host, for a tool whose config has a "linux" block with no
\* entry for the host's distro ID, the platform config a manager resolves is
\* the generic "linux" block.
C2_LinuxFallsBackToGenericBlock ==
    LET tool_config == get_tool_config(call.tool)
    IN  (/\ call.resolved
         /\ SYSTEM = "linux"
         /\ "linux" \in DOMAIN tool_config
         /\ get_linux_distro \notin DOMAIN tool_config.linux)
        => call.platform_config = tool_config.linux

C2_Witness ==
    LET tool_config == get_tool_config(call.tool)
    IN  /\ call.op = "install"
        /\ call.resolved
        /\ Ran(call, "install")
        /\ SYSTEM = "linux"
        /\ "linux" \in DOMAIN tool_config
        /\ get_linux_distro \notin DOMAIN tool_config.linux
        /\ DOMAIN tool_config.linux \cap {"ubuntu"} # {}

\* C3: on a Linux host, for a tool whose "linux" block has a sub-block keyed
\* by the host's distro ID, the platform config a manager resolves is that
\* sub-block, and otherwise the generic linux block.
C3_DistroBlockPreferred ==
    LET tool_config == get_tool_config(call.tool)
    IN  (/\ call.resolved
         /\ SYSTEM = "linux"
         /\ "linux" \in DOMAIN tool_config)
        => call.platform_config =
               IF get_linux_distro \in DOMAIN tool_config.linux
               THEN tool_config.linux[get_linux_distro]
               ELSE tool_config.linux

Detected(w, install_path, tool_name) ==
    LET tool_config == get_tool_config(tool_name)
        platform_config == get_platform_config(tool_config)
        cmd == IF "version_check" \in DOMAIN platform_config THEN platform_config.version_check
               ELSE IF "version_check" \in DOMAIN tool_config THEN tool_config.version_check
               ELSE ""
        name == IF "executable" \in DOMAIN tool_config THEN tool_config.executable ELSE tool_name
        file == IF SYSTEM = "windows" THEN name \o ".exe" ELSE name
    IN  /\ DOMAIN tool_config # {}
        /\ \/ (cmd # "" /\ cmd \in w.versionOk)
           \/ (install_path \o Sep \o tool_name \o Sep \o "bin" \o Sep \o file) \in w.files
           \/ file \in w.onPath

\* C5 as claimed: uninstall_tool for a configured tool that this manager
\* never installed returns (True, "... is not installed.") without executing
\* the uninstall command and without changing the user config.
C5_NeverInstalledIsNotInstalled ==
    [][ (/\ call'.op = "uninstall"
         /\ call'.called
         /\ DOMAIN get_tool_config(call'.tool) # {}
         /\ call'.tool \notin installedByManager)
        => (/\ call'.success
            /\ call'.message = "Tool " \o call'.tool \o " is not installed."
            /\ ~Ran(call', "uninstall")
            /\ user_file' = user_file) ]_vars

\* C5: uninstall_tool for a configured tool that is not detected as installed
\* (whoever installed it or did not) returns (True, "... is not installed.")
\* without executing the uninstall command and without changing the user
\* config.
C5_UndetectedIsNotInstalled ==
    [][ (/\ call'.op = "uninstall"
         /\ call'.called
         /\ DOMAIN get_tool_config(call'.tool) # {}
         /\ ~Detected(world, get_install_path(user_config), call'.tool))
        => (/\ call'.outcome = "returned"
            /\ call'.success
            /\ call'.message = "Tool " \o call'.tool \o " is not installed."
            /\ ~Ran(call', "uninstall")
            /\ user_file' = user_file) ]_vars

\* a tool this manager installed, gone since, is reported not installed
C5_Witness ==
    /\ call.op = "uninstall"
    /\ call.success
    /\ call.message = "Tool ngspice is not installed."
    /\ "ngspice" \in installedByManager

\* C6 as claimed: the install command is executed only if at that point every
\* dependency is on PATH; with a dependency missing and the prompt declined,
\* or the dependency installation failed, the install command is not executed
\* and a failure naming the missing dependencies is returned.
C6_InstallOnlyWithDependenciesOnPath ==
    call.op = "install"
        => /\ Ran(call, "install") => call.deps_at_command
           /\ (call.prompted /\ ~(call.accepted /\ RanToZero(call, "pkg")))
               => /\ ~Ran(call, "install")
                  /\ ~call.success
                  /\ call.message \in {"Missing dependencies: " \o Join(call.missing),
                                       "Failed to install dependencies: " \o Join(call.missing)}

\* C6: the install command is executed only if every dependency was on PATH
\* when the run began, or the user accepted the prompt and the package
\* manager's command exited zero; with a dependency missing and the prompt
\* declined, or the dependency installation failed, the install command is
\* not executed and a failure naming the missing dependencies is returned.
C6_InstallOnlyAfterDependencyCheck ==
    [][ LET dependencies == Get(get_tool_config(call'.tool), "dependencies", <<>>)
            absent == {i \in 1..Len(dependencies) : dependencies[i] \notin world.onPath}
            names == SelectSeqIn(dependencies, {dependencies[i] : i \in absent})
            installed_them == call'.accepted /\ RanToZero(call', "pkg")
        IN  (call'.op = "install" /\ call'.called)
            => /\ Ran(call', "install") => (absent = {} \/ installed_them)
               /\ (call'.prompted /\ ~installed_them)
                   => /\ absent # {}
                      /\ ~Ran(call', "install")
                      /\ call'.outcome = "returned"
                      /\ ~call'.success
                      /\ call'.message = (IF call'.accepted THEN "Failed to install dependencies: "
                                          ELSE "Missing dependencies: ") \o Join(names) ]_vars

\* the install command ran after the package manager installed what was missing
C6_Witness ==
    /\ call.op = "install"
    /\ Len(call.missing) = 2
    /\ RanToZero(call, "pkg")
    /\ Ran(call, "install")

\* C7 as claimed: whatever the outcome of install_tool, the process
\* environment after the call equals the one before it.
C7_EnvironmentRestored ==
    (call.op = "install" /\ call.called) => call.env_after = shell_env

\* C7: the process environment after install_tool equals the one before it,
\* except that a successful install whose platform block sets add_to_path has
\* <install_path>/<tool>/bin put in front of PATH unless PATH contains that
\* string already; the tool's configured environment variables are set while
\* the install command runs.
C7_EnvironmentRestoredButPath ==
    [][ LET bin == PathJoin(PathJoin(get_install_path(user_config), call'.tool), "bin")
            env_vars == Get(call'.platform_config, "environment", EmptyDict)
            adds == /\ call'.outcome = "returned"
                    /\ call'.success
                    /\ Ran(call', "install")
                    /\ Get(call'.platform_config, "add_to_path", FALSE)
                    /\ "PATH" \in DOMAIN shell_env
                    /\ ~\E i \in 1..Len(shell_env.PATH) : StrContains(shell_env.PATH[i], bin)
        IN  (call'.op = "install" /\ call'.called)
            => /\ call'.env_after = IF adds THEN [shell_env EXCEPT !.PATH = <<bin>> \o @]
                                    ELSE shell_env
               /\ Ran(call', "install")
                   => /\ DOMAIN call'.env_during = DOMAIN shell_env \cup DOMAIN env_vars
                      /\ \A k \in DOMAIN env_vars : call'.env_during[k] = env_vars[k]
                      /\ \A k \in DOMAIN shell_env \ DOMAIN env_vars :
                             call'.env_during[k] = shell_env[k] ]_vars

\* a successful install that set a variable for the command and left PATH longer
C7_Witness ==
    /\ call.op = "install"
    /\ call.success
    /\ Ran(call, "install")
    /\ call.env_during # shell_env
    /\ call.env_after # shell_env

\* C8: once install_tool, update_tool or uninstall_tool has executed its
\* command, it returns success if and only if the command exited with status
\* zero.
C8_ExitStatusDecidesSuccess ==
    \A kind \in {"install", "update", "uninstall"} :
        (call.op = kind /\ Ran(call, kind))
            => /\ call.outcome = "returned"
               /\ call.success <=> RanToZero(call, kind)

\* C9: a call of install_tool, update_tool or uninstall_tool executes the
\* tool's command at most once and ends by returning a pair, (False, message)
\* for every error.
C9_NoRetryNothingFatal ==
    (call.called /\ call.op \in {"install", "update", "uninstall"})
        => /\ Cardinality({i \in 1..Len(call.executed) : call.executed[i].kind = call.op}) <= 1
           /\ call.outcome = "returned"
           /\ ~call.success => call.message # ""

\* C10: is_tool_installed is true exactly when the tool is configured and its
\* version-check command (the platform block's preferred to the tool's) exits
\* zero, or its executable is under <install_path>/<tool>/bin, or on PATH.
C10_InstalledIffDetected ==
    [][ /\ call'.checked
            => call'.installed = Detected(world, get_install_path(user_config), call'.tool)
        /\ (call'.op = "list" /\ call'.called)
            => /\ DOMAIN call'.listing = DOMAIN get_all_tools
               /\ \A t \in DOMAIN call'.listing :
                      call'.listing[t] = Detected(world, get_install_path(user_config), t) ]_vars

\* a failing version check fell through to a probe that found the tool
C10_Witness ==
    /\ call.checked
    /\ call.installed
    /\ \E i \in 1..Len(call.executed) :
           call.executed[i].kind = "version_check" /\ call.executed[i].exit = "nonzero"

\* C11: 'update <tool>' executes the update command only for a tool detected
\* as installed, and returns (False, "Tool <tool> is not installed") for a
\* configured tool that is not; 'update --all' returns an entry for exactly
\* the configured tools detected as installed, and every update command it
\* executes is the update command of one of them.
C11_UpdatesOnlyInstalledTools ==
    [][ LET install_path == get_install_path(user_config)
            installed == {t \in DOMAIN get_all_tools : Detected(world, install_path, t)}
            update_cmd(t) == Get(get_platform_config(get_tool_config(t)), "update", "")
        IN  /\ (call'.op = "update" /\ call'.called)
                => /\ Ran(call', "update") => call'.tool \in installed
                   /\ (DOMAIN get_tool_config(call'.tool) # {} /\ call'.tool \notin installed)
                       => /\ call'.outcome = "returned"
                          /\ ~call'.success
                          /\ call'.message = "Tool " \o call'.tool \o " is not installed"
            /\ (call'.op = "update-all" /\ call'.called)
                => /\ call'.outcome = "returned"
                   /\ DOMAIN call'.results = installed
                   /\ \A i \in 1..Len(call'.executed) :
                          call'.executed[i].kind = "update"
                              => \E t \in installed : call'.executed[i].cmd = update_cmd(t) ]_vars

\* update --all ran the update command of the installed tool and skipped the
\* configured tool that is not installed
C11_Witness ==
    /\ call.op = "update-all"
    /\ Ran(call, "update")
    /\ DOMAIN call.results = {"ngspice"}
    /\ DOMAIN get_tool_config("kicad") # {}

\* C12: check_updates holds only tools that have an update or whose status
\* cannot be determined, and 'update' with no argument reports "All tools are
\* up to date." whenever no installed tool has an update available or an
\* undeterminable status.
C12_NoPendingUpdatesIsEmpty ==
    LET pending == {"Update available", "Could not determine update status for this platform"}
    IN  (call.op = "check-updates" /\ call.called)
            => /\ \A t \in DOMAIN call.updates : call.updates[t] \in pending
               /\ (\A t \in DOMAIN call.updates : call.updates[t] \notin pending)
                      => call.message = "All tools are up to date."

\* the tool definitions file is missing or not valid JSON, or holds no entry
\* (or an empty one) for the tool under "tools"
NotDefined(tool_name) ==
    \/ ~tools_file.exists
    \/ ~tools_file.valid
    \/ "tools" \notin DOMAIN tools_file.content
    \/ tool_name \notin DOMAIN tools_file.content.tools
    \/ DOMAIN tools_file.content.tools[tool_name] = {}

\* C13: for a tool that is not defined, each of install_tool,
\* update_tool and uninstall_tool returns (False, "Tool <name> not found in
\* configuration") without executing a command, creating a directory or
\* modifying the user config.
C13_UndefinedToolNotFound ==
    [][ (/\ call'.op \in {"install", "update", "uninstall"}
         /\ call'.called
         /\ NotDefined(call'.tool))
        => (/\ call'.outcome = "returned"
            /\ ~call'.success
            /\ call'.message = "Tool " \o call'.tool \o " not found in configuration"
            /\ call'.executed = <<>>
            /\ world' = world
            /\ user_file' = user_file) ]_vars

\* the per-tool saved environment a user_config.json holds
SavedEnvironment(file) == Get(load_config(file), "environment", EmptyDict)

\* C14 as claimed: after an install or uninstall that executed its command,
\* the user config holds an entry for the tool only if that was a successful
\* install; a successful install stores the platform block's environment
\* variables under the tool's name, a successful uninstall removes the entry,
\* and a failed install or uninstall leaves the user config unchanged.
C14_SavedEnvironmentTracksOutcome ==
    [][ LET t == call'.tool
            env_vars == Get(get_platform_config(get_tool_config(t)), "environment", EmptyDict)
            succeeded == call'.outcome = "returned" /\ call'.success
        IN  (call'.op \in {"install", "uninstall"} /\ call'.called)
            => /\ (Ran(call', call'.op) /\ t \in DOMAIN SavedEnvironment(user_file'))
                   => (call'.op = "install" /\ succeeded)
               /\ (call'.op = "install" /\ Ran(call', "install") /\ succeeded)
                   => /\ t \in DOMAIN SavedEnvironment(user_file')
                      /\ SavedEnvironment(user_file')[t] = env_vars
               /\ (call'.op = "uninstall" /\ Ran(call', "uninstall") /\ succeeded)
                   => t \notin DOMAIN SavedEnvironment(user_file')
               /\ ~succeeded => user_file' = user_file ]_vars

\* C14: a successful install whose write of user_config.json succeeds merges
\* the platform block's environment variables into the tool's saved entry and
\* changes nothing else; a successful uninstall of a tool with a saved entry
\* whose write succeeds removes that entry and changes nothing else, and one
\* of a tool without an entry leaves the file as it was; a failed install or
\* uninstall leaves the file as it was; an entry appears only by such an
\* install, and disappears only by such an uninstall or by a write that
\* failed and emptied the file.
C14_SavedEnvironmentFollowsSavedOutcome ==
    [][ LET t == call'.tool
            env_vars == Get(get_platform_config(get_tool_config(t)), "environment", EmptyDict)
            succeeded == call'.outcome = "returned" /\ call'.success
            before == SavedEnvironment(user_file)
            after == SavedEnvironment(user_file')
            rest_kept == /\ DOMAIN load_config(user_file') \ {"environment"}
                               = DOMAIN user_config \ {"environment"}
                         /\ \A k \in DOMAIN user_config \ {"environment"} :
                                load_config(user_file')[k] = user_config[k]
                         /\ DOMAIN after \ {t} = DOMAIN before \ {t}
                         /\ \A u \in DOMAIN before \ {t} : after[u] = before[u]
            installs == call'.op = "install" /\ Ran(call', "install") /\ succeeded /\ call'.saved
            uninstalls == call'.op = "uninstall" /\ Ran(call', "uninstall") /\ succeeded
        IN  /\ installs
                => /\ t \in DOMAIN after
                   /\ after[t] = Updated(Get(before, t, EmptyDict), env_vars)
                   /\ rest_kept
            /\ (uninstalls /\ t \in DOMAIN before /\ call'.saved)
                => /\ t \notin DOMAIN after
                   /\ rest_kept
            /\ (uninstalls /\ t \notin DOMAIN before) => user_file' = user_file
            /\ (call'.op \in {"install", "uninstall"} /\ ~succeeded) => user_file' = user_file
            /\ \A u \in DOMAIN after \ DOMAIN before : installs /\ u = t
            /\ \A u \in DOMAIN before \ DOMAIN after :
                   \/ uninstalls /\ call'.saved /\ u = t
                   \/ ~call'.saved /\ user_file' = InvalidFile ]_vars

\* an uninstall removed the entry an earlier install had saved
C14_Witness ==
    /\ call.op = "uninstall"
    /\ call.success
    /\ call.saved
    /\ call.tool \in installedByManager
    /\ "environment" \in DOMAIN user_config
    /\ call.tool \notin DOMAIN SavedEnvironment(user_file)

\* the package manager of the host: apt-get for ubuntu and debian, dnf for
\* fedora, yum for centos, choco on Windows, brew on macOS, "" elsewhere
ManagerOfHost ==
    LET ids == {os_release.lines[i].value :
                    i \in {j \in 1..Len(os_release.lines) : os_release.lines[j].key = "ID"}}
    IN  CASE SYSTEM = "windows" -> "choco"
          [] SYSTEM = "darwin" -> "brew"
          [] SYSTEM = "linux" /\ ids \cap {"ubuntu", "debian"} # {} -> "apt-get"
          [] SYSTEM = "linux" /\ "fedora" \in ids -> "dnf"
          [] SYSTEM = "linux" /\ "centos" \in ids -> "yum"
          [] OTHER -> ""

\* C15: every dependency-installation command install_tool executes is the
\* install command of the host's package manager, whose binary is on PATH;
\* when the binary is not on PATH or the host has no package manager and the
\* user accepts the prompt, no command is executed and install_tool returns
\* (False, "Failed to install dependencies: ...").
C15_DependenciesViaDetectedManager ==
    [][ LET detected == ManagerOfHost # "" /\ ManagerOfHost \in world.onPath
            packages == JoinSpace(call'.missing)
            command == CASE ManagerOfHost = "choco" -> "choco install " \o packages \o " -y"
                         [] ManagerOfHost = "brew" -> "brew install " \o packages
                         [] OTHER -> "sudo " \o ManagerOfHost \o " install -y " \o packages
        IN  (call'.op = "install" /\ call'.called)
            => /\ \A i \in 1..Len(call'.executed) :
                      call'.executed[i].kind = "pkg"
                          => detected /\ call'.accepted /\ call'.executed[i].cmd = command
               /\ (call'.prompted /\ call'.accepted /\ ~detected)
                      => /\ call'.executed = version_check_log(world, get_tool_config(call'.tool))
                         /\ call'.outcome = "returned"
                         /\ ~call'.success
                         /\ call'.message = "Failed to install dependencies: " \o Join(call'.missing)
                         /\ world' = world ]_vars

\* the user accepted the prompt on a host with no package manager on PATH
C15_Witness ==
    /\ call.op = "install"
    /\ call.accepted
    /\ ~Ran(call, "pkg")
    /\ ManagerOfHost # ""
    /\ ManagerOfHost \notin world.onPath
    /\ call.message = "Failed to install dependencies: gcc, make"

\* C16: an install_tool that returns "No installation instructions for <tool>
\* on this platform" or "No install command defined for <tool>" has executed
\* no dependency-installation command and no install command, created no
\* install directory and left the user config unchanged.
C16_NoInstructionsNoSideEffects ==
    [][ (/\ call'.op = "install"
         /\ call'.called
         /\ call'.message \in
                {"No installation instructions for " \o call'.tool \o " on this platform",
                 "No install command defined for " \o call'.tool})
        => (/\ ~call'.success
            /\ ~Ran(call', "pkg")
            /\ ~Ran(call', "install")
            /\ ~call'.created_dir
            /\ world'.dirs = world.dirs
            /\ user_file' = user_file) ]_vars

====
